---- MODULE Spec2Model ----
(***************************************************************************)
(* Subscription lifecycle of the SEA Catering backend: the subscription    *)
(* service (CreateSubscription, PauseSubscription, ResumeSubscription,     *)
(* CancelSubscription, ReactivateSubscription, UpdateSubscription,         *)
(* ProcessExpiredPauses), the subscription repository it writes through    *)
(* (Create, Update, BulkUpdateStatus, LogSubscriptionAction), the admin    *)
(* force-cancel path, and the constraints of the subscriptions and         *)
(* subscription_audit tables.                                              *)
(*                                                                         *)
(* Time is a clock of seconds, `now`.  A day has SecondsPerDay seconds;    *)
(* the DATE columns keep the day of a timestamp, and read back as the      *)
(* midnight of that day.  Money is kept in tenths of a rupiah so that the  *)
(* 4.3 factor of the price stays an integer.                               *)
(***************************************************************************)
EXTENDS Integers, Sequences, FiniteSets, TLC

(* ------------------------------ bounds -------------------------------- *)
MaxSubs == 2
MaxTime == 3
MaxOps == 3
MaxProcs == 2
SecondsPerDay == 2

(* --------------------------- program constants ------------------------ *)
StatusActive == "active"
StatusPaused == "paused"
StatusCancelled == "cancelled"
SubscriptionStatus == {StatusActive, StatusPaused, StatusCancelled}

MealTypeEnum == {"breakfast", "lunch", "dinner"}
DeliveryDayEnum == {"monday", "tuesday", "wednesday", "thursday", "friday", "saturday", "sunday"}
AuditActionEnum == {"created", "paused", "resumed", "cancelled", "reactivated", "updated"}

\* the 4.3 weeks-per-month factor, in tenths: prices of subscriptions are kept
\* in tenths of a rupiah
WeeksPerMonthScaled == 43

\* a ULID string is 26 characters; the audit id appends "-" and a
\* 14-character timestamp; subscription_audit.id is VARCHAR(36)
ULIDLen == 26
AuditStampLen == 14
AuditIdMaxLen == 36

\* nil *time.Time / SQL NULL of a date column
NullDate == -1

Users == {"u1", "u2"}

\* meal_plans rows of the seed: id -> price per meal
MealPlans ==
    [p \in {"01HSEACATERING101", "01HSEACATERING102"} |->
        IF p = "01HSEACATERING101" THEN 30000 ELSE 40000]

\* meal_plans.is_active: the admin has deactivated the second plan
MealPlanIsActive == [p \in DOMAIN MealPlans |-> p # "01HSEACATERING102"]

(* ------------------------------ errors -------------------------------- *)
OK == "nil"
ErrSubscriptionNotFound == "subscription not found"
ErrInvalidMealPlan == "invalid meal plan"
ErrInvalidMealTypes == "invalid meal types"
ErrInvalidDeliveryDays == "invalid delivery days"
ErrSubscriptionCancelled == "subscription is cancelled"
ErrInvalidPauseDates == "invalid pause dates"
ErrUnauthorizedAccess == "unauthorized access to subscription"
ErrNotPaused == "subscription is not paused"
ErrAlreadyCancelled == "subscription is already cancelled"
ErrCannotUpdateCancelled == "cannot update cancelled subscription"
ErrNoRows == "sql: no rows in result set"
ErrConstraint == "pq: constraint violation"

ErrOnlyCancelled(status) ==
    IF status = StatusActive
    THEN "only cancelled subscriptions can be reactivated, current status: active"
    ELSE "only cancelled subscriptions can be reactivated, current status: paused"

\* fmt.Errorf("failed to ...: %w", err) around a storage error
ErrFailedToCreate == "failed to create subscription"
ErrFailedToGet == "failed to get subscription: subscription not found"
ErrFailedToPause == "failed to pause subscription"
ErrFailedToResume == "failed to resume subscription"
ErrFailedToCancel == "failed to cancel subscription"
ErrFailedToReactivate == "failed to reactivate subscription"
ErrFailedToUpdate == "failed to update subscription"
ErrFailedToGetDetails == "failed to get subscription details"
ErrFailedToGetUpdated == "failed to get updated subscription"
ErrAdminNotFound == "failed to get subscription: subscription not found (admin)"
ErrNotFoundOrCancelled == "subscription not found or already cancelled"

(* ------------------------------ inputs -------------------------------- *)
Times == 0..MaxTime
SubIds == 1..MaxSubs
\* the requests tried: three valid ones (the second is the 774000 example of
\* the pricing rule, the third changes plan, size and allergies), one for each
\* way a request is refused, one that spells a meal type with a capital and one
\* that names a meal type twice
Requests ==
    {[mealPlanID |-> "01HSEACATERING101", mealTypes |-> <<"breakfast">>,
      deliveryDays |-> <<"monday">>, allergies |-> ""],
     [mealPlanID |-> "01HSEACATERING101", mealTypes |-> <<"breakfast", "lunch">>,
      deliveryDays |-> <<"monday", "wednesday", "friday">>, allergies |-> ""],
     [mealPlanID |-> "01HSEACATERING102", mealTypes |-> <<"lunch", "dinner">>,
      deliveryDays |-> <<"monday">>, allergies |-> "peanuts"],
     [mealPlanID |-> "01HSEACATERING101", mealTypes |-> <<>>,
      deliveryDays |-> <<"monday">>, allergies |-> ""],
     [mealPlanID |-> "01HSEACATERING101", mealTypes |-> <<"breakfast">>,
      deliveryDays |-> <<"funday">>, allergies |-> ""],
     [mealPlanID |-> "no-such-plan", mealTypes |-> <<"breakfast">>,
      deliveryDays |-> <<"monday">>, allergies |-> ""],
     [mealPlanID |-> "01HSEACATERING101", mealTypes |-> <<"Lunch">>,
      deliveryDays |-> <<"monday">>, allergies |-> ""],
     [mealPlanID |-> "01HSEACATERING101", mealTypes |-> <<"breakfast", "breakfast">>,
      deliveryDays |-> <<"monday">>, allergies |-> ""]}
NoRequest ==
    [mealPlanID |-> "", mealTypes |-> <<>>, deliveryDays |-> <<>>, allergies |-> ""]

(* --------------------------- pure functions --------------------------- *)
\* strings.ToLower on the spellings the requests use
ToLower(s) == IF s = "Lunch" THEN "lunch" ELSE s

CalculateSubscriptionPrice(planPrice, mealTypes, deliveryDays) ==
    planPrice * Len(mealTypes) * Len(deliveryDays) * WeeksPerMonthScaled

ValidateMealTypes(mealTypes) ==
    /\ Len(mealTypes) # 0
    /\ \A i \in DOMAIN mealTypes : ToLower(mealTypes[i]) \in MealTypeEnum

ValidateDeliveryDays(deliveryDays) ==
    /\ Len(deliveryDays) # 0
    /\ \A i \in DOMAIN deliveryDays : ToLower(deliveryDays[i]) \in DeliveryDayEnum

\* a timestamp bound to a DATE column keeps its day
ToDate(t) == IF t = NullDate THEN NullDate ELSE (t \div SecondsPerDay) * SecondsPerDay

(* ------------------------------- state -------------------------------- *)
VARIABLES
    subscriptions,       \* the subscriptions table: id -> row
    subscription_audit,  \* the subscription_audit table, in insertion order
    auditTableExists,    \* whether the subscription_audit table is there
    now,                 \* the clock
    ops,                 \* number of calls made so far
    last,                \* the call that has just returned, with its result
    procs                \* requests in flight, between their read and their write

vars == <<subscriptions, subscription_audit, auditTableExists, now, ops, last, procs>>

(* ------------------------- table constraints -------------------------- *)
\* faulty variant of chk_pause_dates: an end date equal to the start date passes
chk_pause_dates_ge(row) ==
    \/ row.pauseStartDate = NullDate /\ row.pauseEndDate = NullDate
    \/ /\ row.pauseStartDate # NullDate
       /\ row.pauseEndDate # NullDate
       /\ row.pauseEndDate >= row.pauseStartDate

\* CONSTRAINT chk_pause_dates of the subscriptions table
chk_pause_dates(row) ==
    \/ row.pauseStartDate = NullDate /\ row.pauseEndDate = NullDate
    \/ /\ row.pauseStartDate # NullDate
       /\ row.pauseEndDate # NullDate
       /\ row.pauseEndDate > row.pauseStartDate

\* the column types and CHECK constraints a subscriptions row must satisfy
SubscriptionRowOK(row) ==
    /\ \A i \in DOMAIN row.mealTypes : row.mealTypes[i] \in MealTypeEnum
    /\ \A i \in DOMAIN row.deliveryDays : row.deliveryDays[i] \in DeliveryDayEnum
    /\ Len(row.mealTypes) > 0
    /\ Len(row.deliveryDays) > 0
    /\ row.totalPrice > 0
    /\ row.status \in SubscriptionStatus
    /\ row.mealPlanId \in DOMAIN MealPlans
    /\ chk_pause_dates(row)

(* --------------------------- the repository --------------------------- *)
\* result of a repository or service call: the error and the tables after it
Result(err, subs, audit) == [err |-> err, subscriptions |-> subs, audit |-> audit]

\* the id LogSubscriptionAction gives an audit row: "<subscription id>-<time to the second>"
AuditID(subscriptionID, t) == [subscriptionID |-> subscriptionID, stamp |-> t]
AuditIDLen == ULIDLen + 1 + AuditStampLen

LogSubscriptionAction(audit, tableExists, subscriptionID, userID, action, oldStatus, newStatus, t) ==
    IF ~tableExists THEN audit
    ELSE IF \/ AuditIDLen > AuditIdMaxLen
            \/ \E i \in DOMAIN audit : audit[i].id = AuditID(subscriptionID, t)
            \/ newStatus \notin SubscriptionStatus
            \/ action \notin AuditActionEnum
         THEN audit
         ELSE Append(audit, [id |-> AuditID(subscriptionID, t),
                             subscriptionId |-> subscriptionID, userId |-> userID,
                             oldStatus |-> oldStatus, newStatus |-> newStatus,
                             action |-> action, createdAt |-> t])

\* the row an INSERT/UPDATE stores for an entity: date columns keep the day
StoredRow(entity) ==
    [entity EXCEPT !.pauseStartDate = ToDate(entity.pauseStartDate),
                   !.pauseEndDate = ToDate(entity.pauseEndDate)]

Create(subs, audit, tableExists, subscription, t) ==
    IF subscription.id \in DOMAIN subs \/ ~SubscriptionRowOK(StoredRow(subscription))
    THEN Result(ErrConstraint, subs, audit)
    ELSE Result(OK,
                [i \in DOMAIN subs \cup {subscription.id} |->
                    IF i = subscription.id THEN StoredRow(subscription) ELSE subs[i]],
                LogSubscriptionAction(audit, tableExists, subscription.id, subscription.userId,
                                      "created", "", subscription.status, t))

\* faulty variant of UpdateAction: the labels are derived also when the status
\* has not changed
UpdateActionUnguarded(oldStatus, newStatus) ==
    IF oldStatus = "cancelled" /\ newStatus = StatusActive THEN "reactivated"
    ELSE IF newStatus = StatusCancelled THEN "cancelled"
    ELSE IF newStatus = StatusPaused THEN "paused"
    ELSE IF newStatus = StatusActive /\ oldStatus = "paused" THEN "resumed"
    ELSE "updated"

\* the action label Update derives from the old and the new status
UpdateAction(oldStatus, newStatus) ==
    IF oldStatus # newStatus
    THEN IF oldStatus = "cancelled" /\ newStatus = StatusActive THEN "reactivated"
         ELSE IF newStatus = StatusCancelled THEN "cancelled"
         ELSE IF newStatus = StatusPaused THEN "paused"
         ELSE IF newStatus = StatusActive /\ oldStatus = "paused" THEN "resumed"
         ELSE "updated"
    ELSE "updated"

\* the UPDATE statement: meal_plan_id, user_id and created_at are not in its SET list
UpdatedRow(row, subscription, t) ==
    [row EXCEPT !.mealTypes = subscription.mealTypes,
                !.deliveryDays = subscription.deliveryDays,
                !.allergies = subscription.allergies,
                !.totalPrice = subscription.totalPrice,
                !.status = subscription.status,
                !.pauseStartDate = ToDate(subscription.pauseStartDate),
                !.pauseEndDate = ToDate(subscription.pauseEndDate),
                !.updatedAt = t]

\* faulty variant of Update: a failed audit insert is returned as the error of
\* the update and the row is not written
UpdateFailingOnAudit(subs, audit, tableExists, subscription, t) ==
    IF subscription.id \notin DOMAIN subs
    THEN Result(ErrNoRows, subs, audit)
    ELSE LET oldStatus == subs[subscription.id].status
             row == UpdatedRow(subs[subscription.id], subscription, t)
             logged == LogSubscriptionAction(audit, tableExists, subscription.id,
                                             subscription.userId,
                                             UpdateAction(oldStatus, subscription.status),
                                             oldStatus, subscription.status, t)
         IN IF ~SubscriptionRowOK(row) \/ (tableExists /\ logged = audit)
            THEN Result(ErrConstraint, subs, audit)
            ELSE Result(OK, [subs EXCEPT ![subscription.id] = row], logged)

Update(subs, audit, tableExists, subscription, t) ==
    IF subscription.id \notin DOMAIN subs
    THEN Result(ErrNoRows, subs, audit)
    ELSE LET oldStatus == subs[subscription.id].status
             row == UpdatedRow(subs[subscription.id], subscription, t)
         IN IF ~SubscriptionRowOK(row)
            THEN Result(ErrConstraint, subs, audit)
            ELSE Result(OK,
                        [subs EXCEPT ![subscription.id] = row],
                        LogSubscriptionAction(audit, tableExists, subscription.id,
                                              subscription.userId,
                                              UpdateAction(oldStatus, subscription.status),
                                              oldStatus, subscription.status, t))

\* faulty variant of GetExpiredSubscriptions: a pause that ends now counts as expired
GetExpiredSubscriptionsOrEqual(subs, t) ==
    {i \in DOMAIN subs : subs[i].status = "paused" /\ subs[i].pauseEndDate <= t}

\* faulty variant of GetExpiredSubscriptions: the comparison is the wrong way round
GetExpiredSubscriptionsNotYetEnded(subs, t) ==
    {i \in DOMAIN subs : subs[i].status = "paused" /\ subs[i].pauseEndDate > t}

\* ids of the rows with status = 'paused' AND pause_end_date < NOW()
GetExpiredSubscriptions(subs, t) ==
    {i \in DOMAIN subs : subs[i].status = "paused" /\ subs[i].pauseEndDate < t}

\* UPDATE subscriptions SET status, updated_at WHERE id = ANY(ids)
BulkUpdateStatus(subs, ids, status, t) ==
    [i \in DOMAIN subs |->
        IF i \in ids THEN [subs[i] EXCEPT !.status = status, !.updatedAt = t] ELSE subs[i]]

\* faulty variant of ForceCancelSubscription: the UPDATE has no status != 'cancelled'
ForceCancelSubscriptionAnyStatus(subs, audit, subscriptionID, t) ==
    IF subscriptionID \in DOMAIN subs
    THEN Result(OK,
                [subs EXCEPT ![subscriptionID] =
                    [@ EXCEPT !.status = "cancelled", !.pauseStartDate = NullDate,
                              !.pauseEndDate = NullDate, !.updatedAt = t]],
                audit)
    ELSE Result(ErrNotFoundOrCancelled, subs, audit)

\* adminRepository.ForceCancelSubscription: only a row that is not cancelled is written
ForceCancelSubscription(subs, audit, subscriptionID, t) ==
    IF subscriptionID \in DOMAIN subs /\ subs[subscriptionID].status # "cancelled"
    THEN Result(OK,
                [subs EXCEPT ![subscriptionID] =
                    [@ EXCEPT !.status = "cancelled", !.pauseStartDate = NullDate,
                              !.pauseEndDate = NullDate, !.updatedAt = t]],
                audit)
    ELSE Result(ErrNotFoundOrCancelled, subs, audit)

\* INTERVAL '1 hour' of the fallback query, in the clock's seconds
SecondsPerHour == SecondsPerDay \div 24

\* GetReactivationsCount: the subscriptions with a 'reactivated' audit record
\* created in [startDate, endDate]; when the audit query fails (no table) the
\* fallback counts the active subscriptions created before the period and
\* updated within it, more than an hour after their creation
GetReactivationsCount(subs, audit, tableExists, startDate, endDate) ==
    IF tableExists
    THEN Cardinality({audit[i].subscriptionId : i \in
            {j \in DOMAIN audit : /\ audit[j].action = "reactivated"
                                  /\ startDate <= audit[j].createdAt
                                  /\ audit[j].createdAt <= endDate}})
    ELSE Cardinality({i \in DOMAIN subs :
            /\ subs[i].status = "active"
            /\ startDate <= subs[i].updatedAt
            /\ subs[i].updatedAt <= endDate
            /\ subs[i].createdAt < startDate
            /\ subs[i].updatedAt > subs[i].createdAt + SecondsPerHour})

\* the counts of the statistics query and the reactivations count
GetSubscriptionStats(subs, audit, tableExists, startDate, endDate) ==
    [TotalSubscriptions |-> Cardinality(DOMAIN subs),
     ActiveSubscriptions |-> Cardinality({i \in DOMAIN subs : subs[i].status = "active"}),
     PausedSubscriptions |-> Cardinality({i \in DOMAIN subs : subs[i].status = "paused"}),
     CancelledSubscriptions |->
        Cardinality({i \in DOMAIN subs : subs[i].status = "cancelled"}),
     NewSubscriptions |->
        Cardinality({i \in DOMAIN subs :
                        startDate <= subs[i].createdAt /\ subs[i].createdAt <= endDate}),
     Reactivations |-> GetReactivationsCount(subs, audit, tableExists, startDate, endDate)]

(* ----------------------------- the service ---------------------------- *)
\* an entity.Subscription with nothing in it
EmptySubscription ==
    [id |-> 0, userId |-> "", mealPlanId |-> "", mealTypes |-> <<>>, deliveryDays |-> <<>>,
     allergies |-> "", totalPrice |-> 0, status |-> "", pauseStartDate |-> NullDate,
     pauseEndDate |-> NullDate, createdAt |-> 0, updatedAt |-> 0]

\* what a service method has decided after its validation and its read:
\* the error it returns, or the entity it hands to the repository
Decision(err, entity) == [err |-> err, entity |-> entity]
Reject(err) == Decision(err, EmptySubscription)

\* ulid.Make(): an id no row has yet
GenerateULID(subs) == Cardinality(DOMAIN subs) + 1

CreateDecide(subs, userID, req, t) ==
    IF ~ValidateMealTypes(req.mealTypes) THEN Reject(ErrInvalidMealTypes)
    ELSE IF ~ValidateDeliveryDays(req.deliveryDays) THEN Reject(ErrInvalidDeliveryDays)
    ELSE IF req.mealPlanID \notin DOMAIN MealPlans THEN Reject(ErrInvalidMealPlan)
    ELSE Decision(OK,
            [id |-> GenerateULID(subs), userId |-> userID, mealPlanId |-> req.mealPlanID,
             mealTypes |-> req.mealTypes, deliveryDays |-> req.deliveryDays,
             allergies |-> req.allergies,
             totalPrice |-> CalculateSubscriptionPrice(MealPlans[req.mealPlanID],
                                                       req.mealTypes, req.deliveryDays),
             status |-> StatusActive, pauseStartDate |-> NullDate, pauseEndDate |-> NullDate,
             createdAt |-> t, updatedAt |-> t])

CreateSubscription(subs, audit, tableExists, userID, req, t) ==
    LET d == CreateDecide(subs, userID, req, t)
    IN IF d.err # OK THEN Result(d.err, subs, audit)
       ELSE LET r == Create(subs, audit, tableExists, d.entity, t)
            IN Result(IF r.err = OK THEN OK ELSE ErrFailedToCreate, r.subscriptions, r.audit)

PauseDecide(subs, subscriptionID, userID, startDate, endDate, t) ==
    IF startDate > endDate \/ startDate < t THEN Reject(ErrInvalidPauseDates)
    ELSE IF subscriptionID \notin DOMAIN subs THEN Reject(ErrSubscriptionNotFound)
    ELSE IF subs[subscriptionID].userId # userID THEN Reject(ErrUnauthorizedAccess)
    ELSE IF subs[subscriptionID].status # StatusActive THEN Reject(ErrSubscriptionCancelled)
    ELSE Decision(OK, [subs[subscriptionID] EXCEPT !.status = StatusPaused,
                                                  !.pauseStartDate = startDate,
                                                  !.pauseEndDate = endDate])

\* faulty variant of ResumeDecide: the status is not looked at
ResumeDecideAnyStatus(subs, subscriptionID, userID) ==
    IF subscriptionID \notin DOMAIN subs THEN Reject(ErrSubscriptionNotFound)
    ELSE IF subs[subscriptionID].userId # userID THEN Reject(ErrUnauthorizedAccess)
    ELSE Decision(OK, [subs[subscriptionID] EXCEPT !.status = StatusActive,
                                                  !.pauseStartDate = NullDate,
                                                  !.pauseEndDate = NullDate])

ResumeDecide(subs, subscriptionID, userID) ==
    IF subscriptionID \notin DOMAIN subs THEN Reject(ErrSubscriptionNotFound)
    ELSE IF subs[subscriptionID].userId # userID THEN Reject(ErrUnauthorizedAccess)
    ELSE IF subs[subscriptionID].status # StatusPaused THEN Reject(ErrNotPaused)
    ELSE Decision(OK, [subs[subscriptionID] EXCEPT !.status = StatusActive,
                                                  !.pauseStartDate = NullDate,
                                                  !.pauseEndDate = NullDate])

\* faulty variant of CancelDecide: a cancelled subscription is cancelled again
CancelDecideNoStatusCheck(subs, subscriptionID, userID) ==
    IF subscriptionID \notin DOMAIN subs THEN Reject(ErrSubscriptionNotFound)
    ELSE IF subs[subscriptionID].userId # userID THEN Reject(ErrUnauthorizedAccess)
    ELSE Decision(OK, [subs[subscriptionID] EXCEPT !.status = StatusCancelled,
                                                  !.pauseStartDate = NullDate,
                                                  !.pauseEndDate = NullDate])

CancelDecide(subs, subscriptionID, userID) ==
    IF subscriptionID \notin DOMAIN subs THEN Reject(ErrSubscriptionNotFound)
    ELSE IF subs[subscriptionID].userId # userID THEN Reject(ErrUnauthorizedAccess)
    ELSE IF subs[subscriptionID].status = StatusCancelled THEN Reject(ErrAlreadyCancelled)
    ELSE Decision(OK, [subs[subscriptionID] EXCEPT !.status = StatusCancelled,
                                                  !.pauseStartDate = NullDate,
                                                  !.pauseEndDate = NullDate])

ReactivateDecide(subs, subscriptionID, userID, t) ==
    IF subscriptionID \notin DOMAIN subs THEN Reject(ErrFailedToGet)
    ELSE IF subs[subscriptionID].userId # userID THEN Reject(ErrUnauthorizedAccess)
    ELSE IF subs[subscriptionID].status # StatusCancelled
         THEN Reject(ErrOnlyCancelled(subs[subscriptionID].status))
    ELSE Decision(OK, [subs[subscriptionID] EXCEPT !.status = StatusActive,
                                                  !.pauseStartDate = NullDate,
                                                  !.pauseEndDate = NullDate,
                                                  !.updatedAt = t])

\* faulty variant of UpdateDecide: the entity handed to the repository is active
\* with no pause window, whatever was read
UpdateDecideActive(subs, subscriptionID, userID, req) ==
    IF ~ValidateMealTypes(req.mealTypes) THEN Reject(ErrInvalidMealTypes)
    ELSE IF ~ValidateDeliveryDays(req.deliveryDays) THEN Reject(ErrInvalidDeliveryDays)
    ELSE IF subscriptionID \notin DOMAIN subs THEN Reject(ErrSubscriptionNotFound)
    ELSE IF subs[subscriptionID].userId # userID THEN Reject(ErrUnauthorizedAccess)
    ELSE IF subs[subscriptionID].status = StatusCancelled THEN Reject(ErrCannotUpdateCancelled)
    ELSE IF req.mealPlanID \notin DOMAIN MealPlans THEN Reject(ErrInvalidMealPlan)
    ELSE Decision(OK, [subs[subscriptionID] EXCEPT
                          !.mealPlanId = req.mealPlanID,
                          !.mealTypes = req.mealTypes,
                          !.deliveryDays = req.deliveryDays,
                          !.allergies = req.allergies,
                          !.totalPrice = CalculateSubscriptionPrice(MealPlans[req.mealPlanID],
                                                                    req.mealTypes,
                                                                    req.deliveryDays),
                          !.status = StatusActive,
                          !.pauseStartDate = NullDate,
                          !.pauseEndDate = NullDate])

UpdateDecide(subs, subscriptionID, userID, req) ==
    IF ~ValidateMealTypes(req.mealTypes) THEN Reject(ErrInvalidMealTypes)
    ELSE IF ~ValidateDeliveryDays(req.deliveryDays) THEN Reject(ErrInvalidDeliveryDays)
    ELSE IF subscriptionID \notin DOMAIN subs THEN Reject(ErrSubscriptionNotFound)
    ELSE IF subs[subscriptionID].userId # userID THEN Reject(ErrUnauthorizedAccess)
    ELSE IF subs[subscriptionID].status = StatusCancelled THEN Reject(ErrCannotUpdateCancelled)
    ELSE IF req.mealPlanID \notin DOMAIN MealPlans THEN Reject(ErrInvalidMealPlan)
    ELSE Decision(OK, [subs[subscriptionID] EXCEPT
                          !.mealPlanId = req.mealPlanID,
                          !.mealTypes = req.mealTypes,
                          !.deliveryDays = req.deliveryDays,
                          !.allergies = req.allergies,
                          !.totalPrice = CalculateSubscriptionPrice(MealPlans[req.mealPlanID],
                                                                    req.mealTypes,
                                                                    req.deliveryDays)])

\* the error a service method wraps a failed repository Update in
UpdateFailure(op) ==
    CASE op = "Pause" -> ErrFailedToPause
      [] op = "Resume" -> ErrFailedToResume
      [] op = "Cancel" -> ErrFailedToCancel
      [] op = "Reactivate" -> ErrFailedToReactivate
      [] OTHER -> ErrFailedToUpdate

\* the second half of the five methods: s.subscriptionRepo.Update and its error
WriteDecision(subs, audit, tableExists, op, d, t) ==
    IF d.err # OK THEN Result(d.err, subs, audit)
    ELSE LET r == Update(subs, audit, tableExists, d.entity, t)
         IN Result(IF r.err = OK THEN OK ELSE UpdateFailure(op), r.subscriptions, r.audit)

\* faulty variant of PauseSubscription: the row is written before the status is
\* checked, and the status error is returned after the write
PauseSubscriptionWriteFirst(subs, audit, tableExists, subscriptionID, userID, startDate, endDate, t) ==
    IF startDate > endDate \/ startDate < t THEN Result(ErrInvalidPauseDates, subs, audit)
    ELSE IF subscriptionID \notin DOMAIN subs THEN Result(ErrSubscriptionNotFound, subs, audit)
    ELSE IF subs[subscriptionID].userId # userID THEN Result(ErrUnauthorizedAccess, subs, audit)
    ELSE LET r == Update(subs, audit, tableExists,
                         [subs[subscriptionID] EXCEPT !.status = StatusPaused,
                                                      !.pauseStartDate = startDate,
                                                      !.pauseEndDate = endDate], t)
         IN IF subs[subscriptionID].status # StatusActive
            THEN Result(ErrSubscriptionCancelled, r.subscriptions, r.audit)
            ELSE Result(IF r.err = OK THEN OK ELSE ErrFailedToPause, r.subscriptions, r.audit)

PauseSubscription(subs, audit, tableExists, subscriptionID, userID, startDate, endDate, t) ==
    WriteDecision(subs, audit, tableExists, "Pause",
                  PauseDecide(subs, subscriptionID, userID, startDate, endDate, t), t)

ResumeSubscription(subs, audit, tableExists, subscriptionID, userID, t) ==
    WriteDecision(subs, audit, tableExists, "Resume",
                  ResumeDecide(subs, subscriptionID, userID), t)

CancelSubscription(subs, audit, tableExists, subscriptionID, userID, t) ==
    WriteDecision(subs, audit, tableExists, "Cancel",
                  CancelDecide(subs, subscriptionID, userID), t)

ReactivateSubscription(subs, audit, tableExists, subscriptionID, userID, t) ==
    WriteDecision(subs, audit, tableExists, "Reactivate",
                  ReactivateDecide(subs, subscriptionID, userID, t), t)

UpdateSubscription(subs, audit, tableExists, subscriptionID, userID, req, t) ==
    WriteDecision(subs, audit, tableExists, "Update",
                  UpdateDecide(subs, subscriptionID, userID, req), t)

ProcessExpiredPauses(subs, audit, t) ==
    Result(OK, BulkUpdateStatus(subs, GetExpiredSubscriptions(subs, t), StatusActive, t), audit)

\* adminService.ForceCancelSubscription
AdminForceCancelSubscription(subs, audit, subscriptionID, t) ==
    IF subscriptionID \notin DOMAIN subs THEN Result(ErrAdminNotFound, subs, audit)
    ELSE IF subs[subscriptionID].status = "cancelled" THEN Result(ErrAlreadyCancelled, subs, audit)
    ELSE ForceCancelSubscription(subs, audit, subscriptionID, t)

(* --------------------------- the HTTP handlers ------------------------ *)
\* the HTTP status a handler of SubscriptionHandler answers with for the error
\* of its service call: ReactivateSubscription tells not-found, wrong status
\* and wrong owner apart, the other handlers pass every error to
\* ErrorHandler.Handle, which answers 500
HTTPStatus(op, err) ==
    IF err = OK THEN 200
    ELSE IF op = "Reactivate"
         THEN IF err = ErrFailedToGet THEN 404
              ELSE IF err \in {ErrOnlyCancelled(StatusActive), ErrOnlyCancelled(StatusPaused)}
                   THEN 400
              ELSE IF err = ErrUnauthorizedAccess THEN 403
              ELSE 500
         ELSE 500

\* calculateSubscriptionGrowth, in hundredths of a percent: the percentage of
\* the total, cut to two decimals
calculateSubscriptionGrowth(stats) ==
    IF stats.TotalSubscriptions = 0 THEN 0
    ELSE ((stats.NewSubscriptions + stats.Reactivations) * 100 * 100)
            \div stats.TotalSubscriptions

(* ------------------------------ the calls ----------------------------- *)
UserOps == {"Pause", "Resume", "Cancel", "Reactivate", "Update"}

\* a call and what it returned
Call(op, id, userID, startDate, endDate, req, err) ==
    [op |-> op, id |-> id, userID |-> userID, startDate |-> startDate, endDate |-> endDate,
     req |-> req, err |-> err]
NoCall == [op |-> "", id |-> 0, userID |-> "", startDate |-> NullDate, endDate |-> NullDate,
           req |-> NoRequest, err |-> OK]

\* a request between its read and its write (ids: the rows a batch has read)
IdleProc == [pc |-> "idle", op |-> "", userID |-> "", startDate |-> NullDate,
             endDate |-> NullDate, req |-> NoRequest, entity |-> EmptySubscription,
             ids |-> {}]
Procs == 1..MaxProcs

Init ==
    /\ subscriptions = [i \in {} |-> EmptySubscription]
    /\ subscription_audit = <<>>
    /\ auditTableExists \in BOOLEAN
    /\ now = 0
    /\ ops = 0
    /\ last = NoCall
    /\ procs = [p \in Procs |-> IdleProc]

\* the tables after a call, and the call's record
Returns(r, call) ==
    /\ subscriptions' = r.subscriptions
    /\ subscription_audit' = r.audit
    /\ last' = [call EXCEPT !.err = r.err]
    /\ ops' = ops + 1
    /\ UNCHANGED <<auditTableExists, now, procs>>

Tick ==
    /\ now < MaxTime
    /\ now' = now + 1
    /\ last' = NoCall
    /\ UNCHANGED <<subscriptions, subscription_audit, auditTableExists, ops, procs>>

CreateCall ==
    /\ ops < MaxOps
    /\ Cardinality(DOMAIN subscriptions) < MaxSubs
    /\ \E userID \in Users, req \in Requests :
        Returns(CreateSubscription(subscriptions, subscription_audit, auditTableExists,
                                   userID, req, now),
                Call("Create", GenerateULID(subscriptions), userID, NullDate, NullDate, req, OK))

PauseCall ==
    /\ ops < MaxOps
    /\ \E id \in SubIds, userID \in Users, startDate \in Times, endDate \in Times :
        Returns(PauseSubscription(subscriptions, subscription_audit, auditTableExists,
                                  id, userID, startDate, endDate, now),
                Call("Pause", id, userID, startDate, endDate, NoRequest, OK))

ResumeCall ==
    /\ ops < MaxOps
    /\ \E id \in SubIds, userID \in Users :
        Returns(ResumeSubscription(subscriptions, subscription_audit, auditTableExists,
                                   id, userID, now),
                Call("Resume", id, userID, NullDate, NullDate, NoRequest, OK))

CancelCall ==
    /\ ops < MaxOps
    /\ \E id \in SubIds, userID \in Users :
        Returns(CancelSubscription(subscriptions, subscription_audit, auditTableExists,
                                   id, userID, now),
                Call("Cancel", id, userID, NullDate, NullDate, NoRequest, OK))

ReactivateCall ==
    /\ ops < MaxOps
    /\ \E id \in SubIds, userID \in Users :
        Returns(ReactivateSubscription(subscriptions, subscription_audit, auditTableExists,
                                       id, userID, now),
                Call("Reactivate", id, userID, NullDate, NullDate, NoRequest, OK))

UpdateCall ==
    /\ ops < MaxOps
    /\ \E id \in SubIds, userID \in Users, req \in Requests :
        Returns(UpdateSubscription(subscriptions, subscription_audit, auditTableExists,
                                   id, userID, req, now),
                Call("Update", id, userID, NullDate, NullDate, req, OK))

ProcessExpiredPausesCall ==
    /\ ops < MaxOps
    /\ Returns(ProcessExpiredPauses(subscriptions, subscription_audit, now),
               Call("ProcessExpiredPauses", 0, "", NullDate, NullDate, NoRequest, OK))

ForceCancelCall ==
    /\ ops < MaxOps
    /\ \E id \in SubIds :
        Returns(AdminForceCancelSubscription(subscriptions, subscription_audit, id, now),
                Call("ForceCancel", id, "", NullDate, NullDate, NoRequest, OK))

Next ==
    \/ Tick
    \/ CreateCall
    \/ PauseCall
    \/ ResumeCall
    \/ CancelCall
    \/ ReactivateCall
    \/ UpdateCall
    \/ ProcessExpiredPausesCall
    \/ ForceCancelCall

\* the calls one at a time
Spec == Init /\ [][Next]_vars

(* ----------------- the calls, with read and write apart ---------------- *)
\* what the first half of a user call does with its decision d: an error is
\* returned at once, otherwise the request holds the entity it read and changed
Begin(p, d, call) ==
    /\ ops < MaxOps
    /\ procs[p].pc = "idle"
    /\ ops' = ops + 1
    /\ IF d.err # OK
       THEN /\ last' = [call EXCEPT !.err = d.err]
            /\ UNCHANGED procs
       ELSE /\ last' = NoCall
            /\ procs' = [procs EXCEPT ![p] =
                            [pc |-> "write", op |-> call.op, userID |-> call.userID,
                             startDate |-> call.startDate, endDate |-> call.endDate,
                             req |-> call.req, entity |-> d.entity, ids |-> {}]]
    /\ UNCHANGED <<subscriptions, subscription_audit, auditTableExists, now>>

PauseBegin(p) ==
    \E id \in SubIds, userID \in Users, startDate \in Times, endDate \in Times :
        Begin(p, PauseDecide(subscriptions, id, userID, startDate, endDate, now),
              Call("Pause", id, userID, startDate, endDate, NoRequest, OK))

ResumeBegin(p) ==
    \E id \in SubIds, userID \in Users :
        Begin(p, ResumeDecide(subscriptions, id, userID),
              Call("Resume", id, userID, NullDate, NullDate, NoRequest, OK))

CancelBegin(p) ==
    \E id \in SubIds, userID \in Users :
        Begin(p, CancelDecide(subscriptions, id, userID),
              Call("Cancel", id, userID, NullDate, NullDate, NoRequest, OK))

ReactivateBegin(p) ==
    \E id \in SubIds, userID \in Users :
        Begin(p, ReactivateDecide(subscriptions, id, userID, now),
              Call("Reactivate", id, userID, NullDate, NullDate, NoRequest, OK))

UpdateBegin(p) ==
    \E id \in SubIds, userID \in Users, req \in Requests :
        Begin(p, UpdateDecide(subscriptions, id, userID, req),
              Call("Update", id, userID, NullDate, NullDate, req, OK))

\* the row has been written since request p read it: an Update has changed the
\* order under a pending status change, or the status has changed under a
\* pending Update
StaleWrite(p) ==
    /\ procs[p].pc = "write"
    /\ LET e == procs[p].entity
           row == subscriptions[e.id]
       IN IF procs[p].op = "Update"
          THEN e.status # row.status
          ELSE <<e.mealTypes, e.deliveryDays, e.allergies, e.totalPrice>>
                  # <<row.mealTypes, row.deliveryDays, row.allergies, row.totalPrice>>

\* faulty variant of Write: a request whose read is stale is refused with a
\* conflict error and writes nothing
WriteUnlessStale(p) ==
    /\ procs[p].pc = "write"
    /\ LET r == IF StaleWrite(p)
                THEN Result("conflict", subscriptions, subscription_audit)
                ELSE WriteDecision(subscriptions, subscription_audit, auditTableExists,
                                   procs[p].op, Decision(OK, procs[p].entity), now)
       IN /\ subscriptions' = r.subscriptions
          /\ subscription_audit' = r.audit
          /\ last' = Call(procs[p].op, procs[p].entity.id, procs[p].userID,
                          procs[p].startDate, procs[p].endDate, procs[p].req, r.err)
    /\ procs' = [procs EXCEPT ![p] = IdleProc]
    /\ UNCHANGED <<auditTableExists, now, ops>>

\* the second half: the repository Update of the entity the request holds
Write(p) ==
    /\ procs[p].pc = "write"
    /\ LET r == WriteDecision(subscriptions, subscription_audit, auditTableExists,
                              procs[p].op, Decision(OK, procs[p].entity), now)
       IN /\ subscriptions' = r.subscriptions
          /\ subscription_audit' = r.audit
          /\ last' = Call(procs[p].op, procs[p].entity.id, procs[p].userID,
                          procs[p].startDate, procs[p].endDate, procs[p].req, r.err)
    /\ procs' = [procs EXCEPT ![p] = IdleProc]
    /\ UNCHANGED <<auditTableExists, now, ops>>

NextConc ==
    \/ Tick
    \/ CreateCall
    \/ \E p \in Procs : PauseBegin(p)
    \/ \E p \in Procs : ResumeBegin(p)
    \/ \E p \in Procs : CancelBegin(p)
    \/ \E p \in Procs : ReactivateBegin(p)
    \/ \E p \in Procs : UpdateBegin(p)
    \/ \E p \in Procs : Write(p)

\* the user calls interleaved: each one a read and a later write
SpecConc == Init /\ [][NextConc]_vars

(* ------------- the admin force-cancel, with check and write apart ------ *)
\* the first half of adminService.ForceCancelSubscription: the read and the
\* status check
ForceCancelBegin(p) ==
    /\ ops < MaxOps
    /\ procs[p].pc = "idle"
    /\ ops' = ops + 1
    /\ \E id \in SubIds :
          IF id \notin DOMAIN subscriptions
          THEN /\ last' = Call("ForceCancel", id, "", NullDate, NullDate, NoRequest,
                                ErrAdminNotFound)
               /\ UNCHANGED procs
          ELSE IF subscriptions[id].status = "cancelled"
          THEN /\ last' = Call("ForceCancel", id, "", NullDate, NullDate, NoRequest,
                                ErrAlreadyCancelled)
               /\ UNCHANGED procs
          ELSE /\ last' = NoCall
               /\ procs' = [procs EXCEPT ![p] =
                               [IdleProc EXCEPT !.pc = "forceCancel", !.op = "ForceCancel",
                                                !.entity = subscriptions[id]]]
    /\ UNCHANGED <<subscriptions, subscription_audit, auditTableExists, now>>

\* the second half: the UPDATE of adminRepository.ForceCancelSubscription
ForceCancelWrite(p) ==
    /\ procs[p].pc = "forceCancel"
    /\ LET r == ForceCancelSubscription(subscriptions, subscription_audit,
                                        procs[p].entity.id, now)
       IN /\ subscriptions' = r.subscriptions
          /\ subscription_audit' = r.audit
          /\ last' = Call("ForceCancel", procs[p].entity.id, "", NullDate, NullDate,
                          NoRequest, r.err)
    /\ procs' = [procs EXCEPT ![p] = IdleProc]
    /\ UNCHANGED <<auditTableExists, now, ops>>

NextAdmin ==
    \/ Tick
    \/ CreateCall
    \/ PauseCall
    \/ ResumeCall
    \/ CancelCall
    \/ ReactivateCall
    \/ \E p \in Procs : ForceCancelBegin(p)
    \/ \E p \in Procs : ForceCancelWrite(p)

\* the user calls one at a time, around force-cancels in two steps
SpecAdmin == Init /\ [][NextAdmin]_vars

(* ------------- the batch, invoked by the external scheduler ----------- *)
\* POST /process-expired, whenever the scheduler calls it
ScheduledProcessExpiredPauses ==
    /\ LET r == ProcessExpiredPauses(subscriptions, subscription_audit, now)
       IN /\ subscriptions' = r.subscriptions
          /\ subscription_audit' = r.audit
          /\ last' = Call("ProcessExpiredPauses", 0, "", NullDate, NullDate, NoRequest, r.err)
    /\ UNCHANGED <<auditTableExists, now, ops, procs>>

NextSched ==
    \/ Tick
    \/ CreateCall
    \/ PauseCall
    \/ ResumeCall
    \/ CancelCall
    \/ ScheduledProcessExpiredPauses

\* the user calls one at a time, and a scheduler that keeps invoking the batch
SpecSched == Init /\ [][NextSched]_vars /\ WF_vars(ScheduledProcessExpiredPauses)

(* ------------------ the batch, with read and write apart -------------- *)
\* the first half of ProcessExpiredPauses: GetExpiredSubscriptions; with nothing
\* expired the batch returns at once
BatchRead(p) ==
    /\ procs[p].pc = "idle"
    /\ LET ids == GetExpiredSubscriptions(subscriptions, now)
       IN IF ids = {}
          THEN /\ last' = Call("ProcessExpiredPauses", 0, "", NullDate, NullDate,
                                NoRequest, OK)
               /\ UNCHANGED procs
          ELSE /\ last' = NoCall
               /\ procs' = [procs EXCEPT ![p] =
                               [IdleProc EXCEPT !.pc = "bulkUpdate",
                                                !.op = "ProcessExpiredPauses",
                                                !.ids = ids]]
    /\ UNCHANGED <<subscriptions, subscription_audit, auditTableExists, now, ops>>

\* the second half: BulkUpdateStatus of the ids that were read
BatchWrite(p) ==
    /\ procs[p].pc = "bulkUpdate"
    /\ subscriptions' = BulkUpdateStatus(subscriptions, procs[p].ids, StatusActive, now)
    /\ last' = Call("ProcessExpiredPauses", 0, "", NullDate, NullDate, NoRequest, OK)
    /\ procs' = [procs EXCEPT ![p] = IdleProc]
    /\ UNCHANGED <<subscription_audit, auditTableExists, now, ops>>

NextBatch ==
    \/ Tick
    \/ CreateCall
    \/ PauseCall
    \/ ResumeCall
    \/ CancelCall
    \/ \E p \in Procs : BatchRead(p)
    \/ \E p \in Procs : BatchWrite(p)

\* the user calls one at a time, around batches in two steps
SpecBatch == Init /\ [][NextBatch]_vars

(* ------------------ calls whose read-back query fails ------------------ *)
\* CreateSubscription when the GetByID after subscriptionRepo.Create returns an
\* error (connection lost, request context cancelled): the row is inserted and
\* the call returns the wrapped error
CreateCallReadBackFails ==
    /\ ops < MaxOps
    /\ Cardinality(DOMAIN subscriptions) < MaxSubs
    /\ \E userID \in Users, req \in Requests :
        LET r == CreateSubscription(subscriptions, subscription_audit, auditTableExists,
                                    userID, req, now)
        IN /\ r.err = OK
           /\ Returns(Result(ErrFailedToGetDetails, r.subscriptions, r.audit),
                      Call("Create", GenerateULID(subscriptions), userID, NullDate,
                           NullDate, req, OK))

\* UpdateSubscription when the GetByID after subscriptionRepo.Update returns an error
UpdateCallReadBackFails ==
    /\ ops < MaxOps
    /\ \E id \in SubIds, userID \in Users, req \in Requests :
        LET r == UpdateSubscription(subscriptions, subscription_audit, auditTableExists,
                                    id, userID, req, now)
        IN /\ r.err = OK
           /\ Returns(Result(ErrFailedToGetUpdated, r.subscriptions, r.audit),
                      Call("Update", id, userID, NullDate, NullDate, req, OK))

NextStorage ==
    \/ Tick
    \/ CreateCall
    \/ UpdateCall
    \/ CancelCall
    \/ CreateCallReadBackFails
    \/ UpdateCallReadBackFails

\* Create and Update one at a time, over a storage whose queries may fail
SpecStorage == Init /\ [][NextStorage]_vars

(* ------------------------------ properties ---------------------------- *)
\* a step that is one whole call of the named kind
CallStep(kinds) == ops' = ops + 1 /\ last'.op \in kinds

\* the subscription a step is about existed before it
Existed == last'.id \in DOMAIN subscriptions

\* the edges of the state machine, each with the one operation that takes it
LegalEdge(old, new, op) ==
    \/ old = "active" /\ new = "paused" /\ op = "Pause"
    \/ old = "paused" /\ new = "active" /\ op = "Resume"
    \/ old \in {"active", "paused"} /\ new = "cancelled" /\ op = "Cancel"
    \/ old = "cancelled" /\ new = "active" /\ op = "Reactivate"

StatusChanged(id) == subscriptions'[id].status # subscriptions[id].status

PauseDatesNull(row) == row.pauseStartDate = NullDate /\ row.pauseEndDate = NullDate

TablesUnchanged == subscriptions' = subscriptions /\ subscription_audit' = subscription_audit

\* C1: with the user calls made one at a time, every change of a persisted
\* status is active->paused by Pause, paused->active by Resume, active->cancelled
\* or paused->cancelled by Cancel, or cancelled->active by Reactivate.
C1_UserEdgesLegal ==
    [][CallStep(UserOps) =>
        \A id \in DOMAIN subscriptions :
            StatusChanged(id) =>
                LegalEdge(subscriptions[id].status, subscriptions'[id].status, last'.op)]_vars

\* a Reactivate has just brought a cancelled subscription back to active
C1_Witness ==
    /\ last.op = "Reactivate"
    /\ last.err = OK
    /\ last.id \in DOMAIN subscriptions
    /\ subscriptions[last.id].status = "active"

\* C2: with the user calls interleaved (read and write apart), the persisted
\* status still changes only along the legal edges, each by its own operation;
\* once cancelled, a subscription is active again only by a Reactivate.
C2_ConcurrentEdgesLegal ==
    [][\A id \in DOMAIN subscriptions :
            StatusChanged(id) =>
                LegalEdge(subscriptions[id].status, subscriptions'[id].status, last'.op)]_vars

\* C3: in every state a subscription that is active or cancelled has both
\* pause dates null.
C3_PauseWindowOnlyWhilePaused ==
    \A id \in DOMAIN subscriptions :
        subscriptions[id].status \in {"active", "cancelled"} => PauseDatesNull(subscriptions[id])

\* C4: in every state each persisted subscription has both pause dates null, or
\* both set with the start strictly before the end.
C4_PauseDatesJointAndOrdered ==
    \A id \in DOMAIN subscriptions :
        \/ PauseDatesNull(subscriptions[id])
        \/ /\ subscriptions[id].pauseStartDate # NullDate
           /\ subscriptions[id].pauseEndDate # NullDate
           /\ subscriptions[id].pauseStartDate < subscriptions[id].pauseEndDate

\* a Pause has just been accepted and its window is stored
C4_Witness ==
    /\ last.op = "Pause"
    /\ last.err = OK
    /\ subscriptions[last.id].status = "paused"
    /\ subscriptions[last.id].pauseStartDate # NullDate
    /\ subscriptions[last.id].pauseEndDate # NullDate

\* C5: after every successful Create and Update the persisted totalPrice is the
\* price of the plan named by the persisted mealPlanId, times the number of
\* persisted meal types, times the number of persisted delivery days, times 4.3,
\* and is greater than 0.
C5_PriceOfPersistedFields ==
    (last.op \in {"Create", "Update"} /\ last.err = OK) =>
        LET row == subscriptions[last.id]
        IN /\ row.totalPrice =
                MealPlans[row.mealPlanId] * Len(row.mealTypes)
                    * Len(row.deliveryDays) * WeeksPerMonthScaled
           /\ row.totalPrice > 0

\* C6: a Pause, Resume, Cancel, Reactivate or Update by a user who does not own
\* the existing subscription returns ErrUnauthorizedAccess, whatever its other
\* arguments and whatever the status.
C6_OtherUserForbidden ==
    [][(CallStep(UserOps) /\ Existed /\ subscriptions[last'.id].userId # last'.userID)
        => last'.err = ErrUnauthorizedAccess]_vars

\* the errors of validation, ownership, not-found and wrong status
RejectionErrors ==
    {ErrInvalidMealTypes, ErrInvalidDeliveryDays, ErrInvalidMealPlan, ErrInvalidPauseDates,
     ErrUnauthorizedAccess, ErrSubscriptionNotFound, ErrFailedToGet,
     ErrSubscriptionCancelled, ErrNotPaused, ErrAlreadyCancelled, ErrCannotUpdateCancelled,
     ErrOnlyCancelled("active"), ErrOnlyCancelled("paused")}

\* C7: when a user call returns a validation, ownership, not-found or
\* wrong-status error, the subscriptions and the audit log are what they were
\* before the call.
C7_RejectedCallWritesNothing ==
    [][(CallStep(UserOps) /\ last'.err \in RejectionErrors) => TablesUnchanged]_vars

\* a Pause by the owner has just been refused for the subscription's status
C7_Witness ==
    /\ last.op = "Pause"
    /\ last.err = ErrSubscriptionCancelled
    /\ last.id \in DOMAIN subscriptions
    /\ subscriptions[last.id].userId = last.userID
    /\ subscriptions[last.id].status # "active"

\* C8: Resume by the owner on an active subscription, Pause with valid future
\* dates on a paused one and Cancel on a cancelled one each return an error and
\* write nothing.
C8_RepeatedTransitionRejected ==
    [][(/\ CallStep({"Resume", "Pause", "Cancel"})
        /\ Existed
        /\ subscriptions[last'.id].userId = last'.userID
        /\ \/ last'.op = "Resume" /\ subscriptions[last'.id].status = "active"
           \/ /\ last'.op = "Pause"
              /\ subscriptions[last'.id].status = "paused"
              /\ now < last'.startDate
              /\ last'.startDate < last'.endDate
           \/ last'.op = "Cancel" /\ subscriptions[last'.id].status = "cancelled")
        => (last'.err # OK /\ TablesUnchanged)]_vars

\* a Pause with valid future dates has just been refused on a paused subscription
C8_Witness ==
    /\ last.op = "Pause"
    /\ last.err # OK
    /\ last.id \in DOMAIN subscriptions
    /\ subscriptions[last.id].userId = last.userID
    /\ subscriptions[last.id].status = "paused"
    /\ now < last.startDate
    /\ last.startDate < last.endDate

\* C9: a Pause by the owner on an active subscription is accepted exactly when
\* now < startDate < endDate; otherwise it returns ErrInvalidPauseDates and the
\* subscription stays active with null pause dates.
C9_PauseAcceptedIffDatesValid ==
    [][(/\ CallStep({"Pause"})
        /\ Existed
        /\ subscriptions[last'.id].userId = last'.userID
        /\ subscriptions[last'.id].status = "active")
        => LET valid == now < last'.startDate /\ last'.startDate < last'.endDate
           IN /\ (last'.err = OK) <=> valid
              /\ ~valid => /\ last'.err = ErrInvalidPauseDates
                           /\ subscriptions'[last'.id].status = "active"
                           /\ PauseDatesNull(subscriptions'[last'.id])]_vars

\* the audit records a step has added for a subscription
NewAuditRecords(id) ==
    {i \in (Len(subscription_audit) + 1)..Len(subscription_audit') :
        subscription_audit'[i].subscriptionId = id}

\* C10: with the audit table there, every successful Create and every persisted
\* change of status by Pause, Resume, Cancel, Reactivate, ProcessExpiredPauses or
\* the admin force-cancel appends exactly one audit record for the subscription,
\* with the status before and the status after.
C10_OneAuditRecordPerTransition ==
    [][auditTableExists =>
        /\ (CallStep({"Create"}) /\ last'.err = OK) =>
              /\ Cardinality(NewAuditRecords(last'.id)) = 1
              /\ \A i \in NewAuditRecords(last'.id) :
                    /\ subscription_audit'[i].oldStatus = ""
                    /\ subscription_audit'[i].newStatus = subscriptions'[last'.id].status
        /\ CallStep({"Pause", "Resume", "Cancel", "Reactivate",
                     "ProcessExpiredPauses", "ForceCancel"}) =>
              \A id \in DOMAIN subscriptions :
                  StatusChanged(id) =>
                      /\ Cardinality(NewAuditRecords(id)) = 1
                      /\ \A i \in NewAuditRecords(id) :
                            /\ subscription_audit'[i].oldStatus = subscriptions[id].status
                            /\ subscription_audit'[i].newStatus = subscriptions'[id].status]_vars

\* the call of a step is made by the owner of an existing subscription
OwnerCall == Existed /\ subscriptions[last'.id].userId = last'.userID

\* a step has added exactly one audit record for id, with this label and these statuses
OneNewAuditRecord(id, action, oldStatus, newStatus) ==
    /\ Cardinality(NewAuditRecords(id)) = 1
    /\ \A i \in NewAuditRecords(id) :
          /\ subscription_audit'[i].action = action
          /\ subscription_audit'[i].oldStatus = oldStatus
          /\ subscription_audit'[i].newStatus = newStatus

\* C11: with the audit table there, a Cancel by the owner of an active
\* subscription succeeds and adds one audit record cancelled (active->cancelled),
\* and a Reactivate by the owner of the cancelled subscription, however soon
\* after, succeeds, leaves it active with null pause dates and adds one audit
\* record reactivated (cancelled->active): two records, in this order.
C11_CancelThenReactivateAudited ==
    [][auditTableExists =>
        /\ (/\ CallStep({"Cancel"})
            /\ OwnerCall
            /\ subscriptions[last'.id].status = "active")
            => /\ last'.err = OK
               /\ subscriptions'[last'.id].status = "cancelled"
               /\ OneNewAuditRecord(last'.id, "cancelled", "active", "cancelled")
        /\ (/\ CallStep({"Reactivate"})
            /\ OwnerCall
            /\ subscriptions[last'.id].status = "cancelled")
            => /\ last'.err = OK
               /\ subscriptions'[last'.id].status = "active"
               /\ PauseDatesNull(subscriptions'[last'.id])
               /\ OneNewAuditRecord(last'.id, "reactivated", "cancelled", "active")]_vars

\* what a user call returns and leaves in the tables from the current state,
\* with the audit table there or not
CallResult(call, tableExists) ==
    CASE call.op = "Create" ->
            CreateSubscription(subscriptions, subscription_audit, tableExists,
                               call.userID, call.req, now)
      [] call.op = "Pause" ->
            PauseSubscription(subscriptions, subscription_audit, tableExists,
                              call.id, call.userID, call.startDate, call.endDate, now)
      [] call.op = "Resume" ->
            ResumeSubscription(subscriptions, subscription_audit, tableExists,
                               call.id, call.userID, now)
      [] call.op = "Cancel" ->
            CancelSubscription(subscriptions, subscription_audit, tableExists,
                               call.id, call.userID, now)
      [] call.op = "Reactivate" ->
            ReactivateSubscription(subscriptions, subscription_audit, tableExists,
                                   call.id, call.userID, now)
      [] OTHER ->
            UpdateSubscription(subscriptions, subscription_audit, tableExists,
                               call.id, call.userID, call.req, now)

\* C12: a Create, Pause, Resume, Cancel, Reactivate or Update returns the same
\* result and leaves the same subscriptions whether the audit table is absent
\* or the audit insert is attempted and fails: an audit failure neither fails
\* the call nor prevents or undoes its write.
C12_AuditFailureHarmless ==
    [][CallStep({"Create"} \cup UserOps) =>
        /\ last'.err = CallResult(last', FALSE).err
        /\ subscriptions' = CallResult(last', FALSE).subscriptions]_vars

\* with the audit table there, a Pause has succeeded and its row is stored
\* although its audit insert failed
C12_Witness ==
    /\ auditTableExists
    /\ last.op = "Pause"
    /\ last.err = OK
    /\ subscriptions[last.id].status = "paused"
    /\ subscription_audit = <<>>

C15_StaleWriteOverwrites ==
    [][\A p \in Procs :
        (StaleWrite(p) /\ procs'[p].pc = "idle") =>
            LET e == procs[p].entity
                row == UpdatedRow(subscriptions[e.id], e, now)
            IN /\ last'.err \in {OK, UpdateFailure(procs[p].op)}
               /\ SubscriptionRowOK(row) =>
                     /\ last'.err = OK
                     /\ subscriptions'[e.id] = row]_vars

\* an Update by the owner has just succeeded while a Pause of the same
\* subscription, which read it before the Update, is about to write
C15_Witness ==
    /\ last.op = "Update"
    /\ last.err = OK
    /\ \E p \in Procs :
          /\ StaleWrite(p)
          /\ procs[p].op = "Pause"
          /\ procs[p].entity.id = last.id
          /\ procs[p].userID = last.userID
          /\ procs[p].startDate < procs[p].endDate

\* the statuses in which an operation is refused
StatusForbids(op, status) ==
    CASE op = "Pause" -> status # "active"
      [] op = "Resume" -> status # "paused"
      [] op = "Cancel" -> status = "cancelled"
      [] op = "Reactivate" -> status # "cancelled"
      [] OTHER -> status = "cancelled"

\* the arguments of a call pass its validation: a Pause has now < startDate <
\* endDate, an Update a valid request naming an existing plan
ValidArguments(call) ==
    /\ call.op = "Pause" => (now < call.startDate /\ call.startDate < call.endDate)
    /\ call.op = "Update" =>
          /\ ValidateMealTypes(call.req.mealTypes)
          /\ ValidateDeliveryDays(call.req.deliveryDays)
          /\ call.req.mealPlanID \in DOMAIN MealPlans

\* the error a Pause, Resume or Reactivate would return were its subscription
\* in the given status
ErrorInStatus(call, status) ==
    LET subs == [subscriptions EXCEPT ![call.id].status = status]
    IN CASE call.op = "Pause" ->
                PauseDecide(subs, call.id, call.userID, call.startDate, call.endDate, now).err
         [] call.op = "Resume" -> ResumeDecide(subs, call.id, call.userID).err
         [] OTHER -> ReactivateDecide(subs, call.id, call.userID, now).err

\* C16: when a Pause, Resume or Reactivate by the owner is refused because of
\* the subscription's status, the error tells the status: it is not the error
\* the same call returns for the other status in which it is refused.
C16_StatusErrorTellsStatus ==
    [][(/\ CallStep({"Pause", "Resume", "Reactivate"})
        /\ OwnerCall
        /\ ValidArguments(last')
        /\ StatusForbids(last'.op, subscriptions[last'.id].status))
        => \A status \in SubscriptionStatus :
              (StatusForbids(last'.op, status) /\ status # subscriptions[last'.id].status)
                  => last'.err # ErrorInStatus(last', status)]_vars

\* C17: for each of pause, resume, cancel, reactivate and update, a call with
\* valid arguments is answered 404 when the subscription does not exist, 403
\* when it belongs to another user, and 400 or 409 when its status forbids the
\* operation.
C17_HTTPStatusTellsCause ==
    [][(CallStep(UserOps) /\ ValidArguments(last')) =>
        /\ ~Existed => HTTPStatus(last'.op, last'.err) = 404
        /\ (Existed /\ ~OwnerCall) => HTTPStatus(last'.op, last'.err) = 403
        /\ (OwnerCall /\ StatusForbids(last'.op, subscriptions[last'.id].status))
              => HTTPStatus(last'.op, last'.err) \in {400, 409}]_vars

\* a step in which a request's repository Update has run
WriteStep == \E p \in Procs : procs[p].pc = "write" /\ procs'[p].pc = "idle"

\* the derivation of the label by priority: reactivated, resumed, paused,
\* cancelled, updated
LabelByPriority(old, new) ==
    IF old = "cancelled" /\ new = "active" THEN "reactivated"
    ELSE IF old = "paused" /\ new = "active" THEN "resumed"
    ELSE IF new = "paused" THEN "paused"
    ELSE IF new = "cancelled" THEN "cancelled"
    ELSE "updated"

\* C18 as stated: for every row update the label Update derives for the audit
\* record is reactivated if old = cancelled and new = active, else resumed if
\* old = paused and new = active, else paused if new = paused, else cancelled
\* if new = cancelled, else updated, for all nine pairs (old, new).
C18_LabelByPriorityForAllPairs ==
    [][(WriteStep /\ last'.err = OK) =>
        UpdateAction(subscriptions[last'.id].status, subscriptions'[last'.id].status)
            = LabelByPriority(subscriptions[last'.id].status,
                              subscriptions'[last'.id].status)]_vars

\* C18 as amended: the label is updated whenever the status is unchanged, and
\* otherwise reactivated if old = cancelled and new = active, resumed if
\* old = paused and new = active, paused if new = paused, cancelled if
\* new = cancelled.
C18_LabelUpdatedUnlessStatusChanges ==
    [][(WriteStep /\ last'.err = OK) =>
        LET old == subscriptions[last'.id].status
            new == subscriptions'[last'.id].status
        IN UpdateAction(old, new) =
              IF old = new THEN "updated" ELSE LabelByPriority(old, new)]_vars

\* an Update by the owner has just rewritten a paused subscription, which
\* stays paused
C18_Witness ==
    /\ last.op = "Update"
    /\ last.err = OK
    /\ subscriptions[last.id].status = "paused"
    /\ subscriptions[last.id].allergies = last.req.allergies
    /\ subscriptions[last.id].mealTypes = last.req.mealTypes

\* the meal types and delivery days of a request are values of the two
\* enumerations, at least one of each
InEnumerations(req) ==
    /\ Len(req.mealTypes) > 0
    /\ \A i \in DOMAIN req.mealTypes : req.mealTypes[i] \in MealTypeEnum
    /\ Len(req.deliveryDays) > 0
    /\ \A i \in DOMAIN req.deliveryDays : req.deliveryDays[i] \in DeliveryDayEnum

\* C19: a Create with valid meal types, valid delivery days and an existing
\* plan persists exactly one new subscription: of the calling user, active,
\* both pause dates null, plan, meal types, delivery days and allergies those
\* of the request, totalPrice = plan price x |mealTypes| x |deliveryDays| x 4.3
\* (30000 with 2 meal types and 3 days gives 774000); and, with the audit table
\* there, it adds one audit record created.
C19_CreatePersistsRequestAndAudit ==
    [][(/\ CallStep({"Create"})
        /\ InEnumerations(last'.req)
        /\ last'.req.mealPlanID \in DOMAIN MealPlans)
        => /\ last'.err = OK
           /\ last'.id \notin DOMAIN subscriptions
           /\ DOMAIN subscriptions' = DOMAIN subscriptions \cup {last'.id}
           /\ \A id \in DOMAIN subscriptions : subscriptions'[id] = subscriptions[id]
           /\ LET row == subscriptions'[last'.id]
                  req == last'.req
              IN /\ row.userId = last'.userID
                 /\ row.status = "active"
                 /\ PauseDatesNull(row)
                 /\ row.mealPlanId = req.mealPlanID
                 /\ row.mealTypes = req.mealTypes
                 /\ row.deliveryDays = req.deliveryDays
                 /\ row.allergies = req.allergies
                 /\ row.totalPrice = MealPlans[req.mealPlanID] * Len(req.mealTypes)
                                        * Len(req.deliveryDays) * WeeksPerMonthScaled
                 /\ (/\ MealPlans[req.mealPlanID] = 30000
                     /\ Len(req.mealTypes) = 2
                     /\ Len(req.deliveryDays) = 3) => row.totalPrice = 774000 * 10
           /\ auditTableExists => OneNewAuditRecord(last'.id, "created", "", "active")]_vars

\* C20: a Create or an Update returns ErrInvalidMealTypes when mealTypes is
\* empty or has a value outside {breakfast, lunch, dinner}, otherwise
\* ErrInvalidDeliveryDays when deliveryDays is empty or has a value outside
\* {monday..sunday}, otherwise (for an Update: by the owner of a subscription
\* that is not cancelled) ErrInvalidMealPlan when the plan does not exist; the
\* three errors differ and in each case the tables are unchanged.
C20_InvalidRequestRefusedByCause ==
    [][CallStep({"Create", "Update"}) =>
        LET req == last'.req
            badMealTypes == \/ Len(req.mealTypes) = 0
                            \/ \E i \in DOMAIN req.mealTypes :
                                  req.mealTypes[i] \notin MealTypeEnum
            badDeliveryDays == \/ Len(req.deliveryDays) = 0
                               \/ \E i \in DOMAIN req.deliveryDays :
                                     req.deliveryDays[i] \notin DeliveryDayEnum
            badPlan == /\ req.mealPlanID \notin DOMAIN MealPlans
                       /\ last'.op = "Update" =>
                             (OwnerCall /\ subscriptions[last'.id].status # "cancelled")
        IN /\ badMealTypes => (last'.err = ErrInvalidMealTypes /\ TablesUnchanged)
           /\ (~badMealTypes /\ badDeliveryDays) =>
                 (last'.err = ErrInvalidDeliveryDays /\ TablesUnchanged)
           /\ (~badMealTypes /\ ~badDeliveryDays /\ badPlan) =>
                 (last'.err = ErrInvalidMealPlan /\ TablesUnchanged)
           /\ ErrInvalidMealTypes # ErrInvalidDeliveryDays
           /\ ErrInvalidMealTypes # ErrInvalidMealPlan
           /\ ErrInvalidDeliveryDays # ErrInvalidMealPlan]_vars

\* a sequence names no value twice
NoDuplicates(seq) == \A i, j \in DOMAIN seq : seq[i] = seq[j] => i = j

\* C21: in every state each persisted subscription has mealTypes non-empty,
\* without duplicates and within {breakfast, lunch, dinner}, and deliveryDays
\* non-empty, without duplicates and within {monday..sunday}.
C21_MealTypesAndDaysCanonicalSets ==
    \A id \in DOMAIN subscriptions :
        LET row == subscriptions[id]
        IN /\ Len(row.mealTypes) > 0
           /\ \A i \in DOMAIN row.mealTypes : row.mealTypes[i] \in MealTypeEnum
           /\ NoDuplicates(row.mealTypes)
           /\ Len(row.deliveryDays) > 0
           /\ \A i \in DOMAIN row.deliveryDays : row.deliveryDays[i] \in DeliveryDayEnum
           /\ NoDuplicates(row.deliveryDays)

\* C22: a Create or an Update that names an existing but inactive meal plan, and
\* is otherwise acceptable, returns ErrInvalidMealPlan and persists nothing; one
\* that succeeds names an active plan.
C22_InactivePlanRefused ==
    [][CallStep({"Create", "Update"}) =>
        /\ last'.err = OK => MealPlanIsActive[last'.req.mealPlanID]
        /\ (/\ InEnumerations(last'.req)
            /\ last'.req.mealPlanID \in DOMAIN MealPlans
            /\ ~MealPlanIsActive[last'.req.mealPlanID]
            /\ last'.op = "Update" =>
                  (OwnerCall /\ subscriptions[last'.id].status # "cancelled"))
            => (last'.err = ErrInvalidMealPlan /\ TablesUnchanged)]_vars

\* C23: with the calls one at a time, a successful Update leaves the status and
\* both pause dates of the subscription, active or paused, as they were; an
\* Update by the owner of a cancelled subscription returns an error and changes
\* nothing.
C23_UpdateKeepsLifecyclePosition ==
    [][(CallStep({"Update"}) /\ Existed) =>
        /\ last'.err = OK =>
              /\ subscriptions[last'.id].status \in {"active", "paused"}
              /\ subscriptions'[last'.id].status = subscriptions[last'.id].status
              /\ subscriptions'[last'.id].pauseStartDate
                    = subscriptions[last'.id].pauseStartDate
              /\ subscriptions'[last'.id].pauseEndDate = subscriptions[last'.id].pauseEndDate
        /\ (OwnerCall /\ subscriptions[last'.id].status = "cancelled") =>
              (last'.err # OK /\ TablesUnchanged)]_vars

\* an Update by the owner has just changed the order of a paused subscription,
\* whose pause window is still stored
C23_Witness ==
    /\ last.op = "Update"
    /\ last.err = OK
    /\ subscriptions[last.id].status = "paused"
    /\ subscriptions[last.id].pauseStartDate # NullDate
    /\ subscriptions[last.id].pauseEndDate # NullDate
    /\ subscriptions[last.id].totalPrice =
          CalculateSubscriptionPrice(MealPlans[last.req.mealPlanID],
                                     last.req.mealTypes, last.req.deliveryDays)

\* the statistics of a period read in the state before and after a step
StatsBefore(startDate, endDate) ==
    GetSubscriptionStats(subscriptions, subscription_audit, auditTableExists,
                         startDate, endDate)
StatsAfter(startDate, endDate) ==
    GetSubscriptionStats(subscriptions', subscription_audit', auditTableExists',
                         startDate, endDate)

\* the audit log already has a reactivation of the subscription in the period
ReactivationRecorded(id, startDate, endDate) ==
    \E i \in DOMAIN subscription_audit :
        /\ subscription_audit[i].subscriptionId = id
        /\ subscription_audit[i].action = "reactivated"
        /\ startDate <= subscription_audit[i].createdAt
        /\ subscription_audit[i].createdAt <= endDate

\* C24: with the audit table there, for every period [startDate, endDate] the
\* reactivations count is the number of distinct subscriptions reactivated
\* within it and the new-subscriptions count the number created within it:
\* both are 0 at first; a successful Reactivate within the period of a
\* subscription not yet reactivated in it adds one to the first and nothing
\* else changes it; a successful Create within the period adds one to the
\* second and nothing else, no Reactivate either, changes it.
C24_StatsCountReactivationsAndCreations ==
    [][auditTableExists =>
        \A startDate \in Times, endDate \in Times :
            LET inPeriod == startDate <= now /\ now <= endDate
                reactivated == CallStep({"Reactivate"}) /\ last'.err = OK /\ inPeriod
                created == CallStep({"Create"}) /\ last'.err = OK /\ inPeriod
            IN /\ StatsAfter(startDate, endDate).Reactivations =
                    StatsBefore(startDate, endDate).Reactivations +
                        (IF reactivated /\ ~ReactivationRecorded(last'.id, startDate, endDate)
                         THEN 1 ELSE 0)
               /\ StatsAfter(startDate, endDate).NewSubscriptions =
                    StatsBefore(startDate, endDate).NewSubscriptions +
                        (IF created THEN 1 ELSE 0)]_vars

\* a ratio as a percentage in hundredths of a percent, rounded; 0 for a zero
\* denominator
RoundedPercent(numerator, denominator) ==
    IF denominator = 0 THEN 0
    ELSE (numerator * 100 * 100 * 2 + denominator) \div (2 * denominator)

\* C25: for every period, the growth reported with the statistics is (new
\* subscriptions + reactivations) / active subscriptions x 100 rounded to two
\* decimals, and 0 when no subscription is active.
C25_GrowthOverActiveCount ==
    \A startDate \in Times, endDate \in Times :
        LET stats == GetSubscriptionStats(subscriptions, subscription_audit,
                                          auditTableExists, startDate, endDate)
        IN calculateSubscriptionGrowth(stats) =
              RoundedPercent(stats.NewSubscriptions + stats.Reactivations,
                             stats.ActiveSubscriptions)

\* the subscription is paused and its pause window has ended
PauseExpired(id) ==
    /\ id \in DOMAIN subscriptions
    /\ subscriptions[id].status = "paused"
    /\ subscriptions[id].pauseEndDate < now

\* C26: while the scheduler keeps invoking ProcessExpiredPauses, a subscription
\* that is paused with its pauseEndDate in the past eventually is not paused
\* any more: active by the batch or a Resume, or cancelled by a Cancel.
C26_ExpiredPauseEventuallyLeft ==
    \A id \in SubIds :
        PauseExpired(id) ~> (id \in DOMAIN subscriptions /\ subscriptions[id].status # "paused")

\* the scheduler's batch has just run and a subscription whose pause window had
\* ended is active
C26_Witness ==
    /\ last.op = "ProcessExpiredPauses"
    /\ last.err = OK
    /\ \E id \in DOMAIN subscriptions :
          /\ subscriptions[id].status = "active"
          /\ subscriptions[id].pauseStartDate # NullDate
          /\ subscriptions[id].pauseEndDate < now

\* C27: when the batch runs beside other calls, its bulk write changes the
\* status only of subscriptions that are paused with an ended pause window at
\* the moment of the write: one cancelled, or resumed and paused again, since
\* the batch read the expired set is not set to active.
C27_BatchWritesOnlyExpiredPauses ==
    [][\A p \in Procs :
        (procs[p].pc = "bulkUpdate" /\ procs'[p].pc = "idle") =>
            \A id \in DOMAIN subscriptions : StatusChanged(id) => PauseExpired(id)]_vars

C29_CreateUpdateAllOrNothing ==
    [][(CallStep({"Create", "Update"}) /\ last'.err # OK)
        => /\ subscriptions' = subscriptions
           /\ subscription_audit' = subscription_audit]_vars

====
